---------------------------- MODULE Spec2Model ----------------------------
(***************************************************************************)
(* A model of rsf.py (KeeperCyclone/rsf): resurfacing of Markdown notes.   *)
(*                                                                         *)
(* Text is modelled character by character: a string is a sequence of      *)
(* one-character strings, a line stream is a sequence of such strings.     *)
(* A calendar date is a record [year, month, day]; the arithmetic of       *)
(* datetime.date (ordinals, ISO formatting and parsing) is modelled as the *)
(* standard library computes it.                                           *)
(***************************************************************************)
EXTENDS Integers, Sequences, FiniteSets, TLC

(***************************************************************************)
(* Bounds of the model.                                                    *)
(***************************************************************************)
MaxLines == 3
MaxLimit == 2
MaxEntries == 3
MaxWindow == 1
MaxPad == 1
MaxStream == 5
DateSpread == 1

(***************************************************************************)
(* State.                                                                  *)
(***************************************************************************)
VARIABLES
    pc,             \* the position of the call that is running
    line,           \* the line given to the pattern matchers
    notstart,       \* what _isnot_start_pattern_match returned
    isdate,         \* what _is_date_pattern_match returned
    stream,         \* the lines of the file (or of the stream searched)
    found,          \* the outcome of find_dateblock
    dateblock,      \* the DueDate entries given to get_due_date
    reference,
    overdue,
    advance,
    daterange,      \* the DateRange that get_due_date computes
    due,            \* the outcome of get_due_date
    filename,
    return_nodues,
    limit,
    stream_,        \* the limited stream
    result,         \* the MaybeResult of the chain so far
    invoked,        \* the stages that bind has invoked, in order
    escaped,        \* the exception that left get_duestr_from_file, if any
    output          \* the string that get_duestr_from_file returned

(***************************************************************************)
(* Characters and character classes of Python's re module.                 *)
(***************************************************************************)
Digits == <<"0", "1", "2", "3", "4", "5", "6", "7", "8", "9">>

\* \s of the re module, for the characters the model uses.
IsSpace(c) == c \in {" ", "\t", "\n"}

\* \d of the re module.
IsDigit(c) == \E i \in 1..10 : Digits[i] = c

DigitVal(c) == (CHOOSE i \in 1..10 : Digits[i] = c) - 1

\* The end of the longest run of whitespace that starts at position p of s
\* (the first position that \s* leaves unconsumed).
SkipSpace(s, p) ==
    IF \E q \in p..Len(s) : ~IsSpace(s[q])
    THEN CHOOSE q \in p..Len(s) :
            /\ ~IsSpace(s[q])
            /\ \A r \in p..(q - 1) : IsSpace(s[r])
    ELSE IF p > Len(s) THEN p ELSE Len(s) + 1

(***************************************************************************)
(* datetime.date of the standard library.                                  *)
(***************************************************************************)
Date(y, m, d) == [year |-> y, month |-> m, day |-> d]

IsLeap(y) == y % 4 = 0 /\ (y % 100 # 0 \/ y % 400 = 0)

DaysInMonth(y, m) ==
    IF m = 2 THEN (IF IsLeap(y) THEN 29 ELSE 28)
    ELSE IF m \in {4, 6, 9, 11} THEN 30 ELSE 31

DaysBeforeYear(y) ==
    (y - 1) * 365 + ((y - 1) \div 4) - ((y - 1) \div 100) + ((y - 1) \div 400)

DaysBeforeMonthTable == <<0, 31, 59, 90, 120, 151, 181, 212, 243, 273, 304, 334>>

DaysBeforeMonth(y, m) ==
    DaysBeforeMonthTable[m] + (IF m > 2 /\ IsLeap(y) THEN 1 ELSE 0)

\* date.toordinal
ToOrdinal(dt) ==
    DaysBeforeYear(dt.year) + DaysBeforeMonth(dt.year, dt.month) + dt.day

\* date.fromordinal (_ord2ymd of the standard library)
FromOrdinal(ord) ==
    LET n0   == ord - 1
        n400 == n0 \div 146097
        r400 == n0 % 146097
        n100 == r400 \div 36524
        r100 == r400 % 36524
        n4   == r100 \div 1461
        r4   == r100 % 1461
        n1   == r4 \div 365
        r1   == r4 % 365
        y    == n400 * 400 + n100 * 100 + n4 * 4 + n1 + 1
    IN  IF n1 = 4 \/ n100 = 4
        THEN Date(y - 1, 12, 31)
        ELSE LET m == CHOOSE k \in 1..12 :
                          /\ DaysBeforeMonth(y, k) <= r1
                          /\ r1 < DaysBeforeMonth(y, k) + DaysInMonth(y, k)
             IN  Date(y, m, r1 - DaysBeforeMonth(y, m) + 1)

\* date + timedelta(days = n)
DatePlusDays(dt, n) == FromOrdinal(ToOrdinal(dt) + n)

\* date <= date: dates compare as (year, month, day)
DateLE(a, b) ==
    \/ a.year < b.year
    \/ a.year = b.year /\ a.month < b.month
    \/ a.year = b.year /\ a.month = b.month /\ a.day <= b.day

DateLT(a, b) == DateLE(a, b) /\ a # b

\* "%04d" and "%02d"
Fmt4(n) == << Digits[((n \div 1000) % 10) + 1], Digits[((n \div 100) % 10) + 1],
              Digits[((n \div 10) % 10) + 1], Digits[(n % 10) + 1] >>

Fmt2(n) == << Digits[((n \div 10) % 10) + 1], Digits[(n % 10) + 1] >>

\* date.isoformat
IsoFormat(dt) == Fmt4(dt.year) \o <<"-">> \o Fmt2(dt.month) \o <<"-">> \o Fmt2(dt.day)

\* The year, month and day fields that date.fromisoformat reads from a
\* ten-character token dddd-dd-dd.
IsoFields(tok) ==
    Date(DigitVal(tok[1]) * 1000 + DigitVal(tok[2]) * 100
            + DigitVal(tok[3]) * 10 + DigitVal(tok[4]),
         DigitVal(tok[6]) * 10 + DigitVal(tok[7]),
         DigitVal(tok[9]) * 10 + DigitVal(tok[10]))

\* date(y, m, d) raises ValueError unless the fields name a calendar day.
IsCalendarDate(dt) ==
    /\ dt.year \in 1..9999
    /\ dt.month \in 1..12
    /\ dt.day \in 1..DaysInMonth(dt.year, dt.month)


(***************************************************************************)
(* Exceptions.  An exception object is a record whose type field names its *)
(* class; an outcome is what a call produces: a returned value or a raised *)
(* exception.                                                              *)
(***************************************************************************)
DateblockNotFound == [type |-> "DateblockNotFound"]

NoDueDateFound(date_range, dateblock_) ==
    [type |-> "NoDueDateFound", date_range |-> date_range, dateblock |-> dateblock_]

StringParsingError(string) == [type |-> "StringParsingError", string |-> string]

\* Built-in exceptions, which are not subclasses of RsfException.
ValueError == [type |-> "ValueError"]

AttributeError == [type |-> "AttributeError"]

\* isinstance(e, RsfException)
IsRsfException(e) ==
    e.type \in {"RsfException", "DateblockNotFound", "NoDueDateFound", "StringParsingError"}

Returns(v) == [raised |-> FALSE, value |-> v]

Raises(e) == [raised |-> TRUE, value |-> e]

(***************************************************************************)
(* Pattern matchers.                                                       *)
(***************************************************************************)
\* The start pattern compiled without re.IGNORECASE.
START_PATTERN_match_cased(line_) ==
    /\ Len(line_) >= 4
    /\ SubSeq(line_, 1, 4) = <<"r", "s", "f", ":">>

\* _START_PATTERN.match(line): 'rsf:' in any letter case at the start of the
\* line; the rest of the pattern, \s*\n?, matches the empty string too.
START_PATTERN_match(line_) ==
    /\ Len(line_) >= 4
    /\ line_[1] \in {"r", "R"}
    /\ line_[2] \in {"s", "S"}
    /\ line_[3] \in {"f", "F"}
    /\ line_[4] = ":"

\* Whether the ten characters from position p on are dddd-dd-dd.
IsDateToken(s, p) ==
    /\ p + 9 <= Len(s)
    /\ \A k \in {0, 1, 2, 3, 5, 6, 8, 9} : IsDigit(s[p + k])
    /\ s[p + 4] = "-"
    /\ s[p + 7] = "-"

NoMatch == [matched |-> FALSE, completed |-> <<>>, date |-> <<>>, text |-> <<>>]

\* The date pattern with a completion flag (?P<completed>x) in lower case only.
DATE_PATTERN_match_lower(line_) ==
    IF Len(line_) = 0 \/ line_[1] \notin {"-", "*"}
    THEN NoMatch
    ELSE LET p2   == SkipSpace(line_, 2)
             flag == p2 <= Len(line_) /\ line_[p2] = "x"
             p3   == IF flag THEN p2 + 1 ELSE p2
             p4   == SkipSpace(line_, p3)
         IN  IF IsDateToken(line_, p4)
             THEN [matched   |-> TRUE,
                   completed |-> IF flag THEN <<line_[p2]>> ELSE <<>>,
                   date      |-> SubSeq(line_, p4, p4 + 9),
                   text      |-> SubSeq(line_, 1, SkipSpace(line_, p4 + 10) - 1)]
             ELSE NoMatch

\* _DATE_PATTERN.match(line): the match object's groups 'completed' and
\* 'date' and the matched text (group 0); an unmatched group is empty.
DATE_PATTERN_match(line_) ==
    IF Len(line_) = 0 \/ line_[1] \notin {"-", "*"}
    THEN NoMatch
    ELSE LET p2   == SkipSpace(line_, 2)
             flag == p2 <= Len(line_) /\ line_[p2] \in {"x", "X"}
             p3   == IF flag THEN p2 + 1 ELSE p2
             p4   == SkipSpace(line_, p3)
         IN  IF IsDateToken(line_, p4)
             THEN [matched   |-> TRUE,
                   completed |-> IF flag THEN <<line_[p2]>> ELSE <<>>,
                   date      |-> SubSeq(line_, p4, p4 + 9),
                   text      |-> SubSeq(line_, 1, SkipSpace(line_, p4 + 10) - 1)]
             ELSE NoMatch

isnot_start_pattern_match(line_) == ~START_PATTERN_match(line_)

is_date_pattern_match(line_) == DATE_PATTERN_match(line_).matched

(***************************************************************************)
(* Dateblock extraction.                                                   *)
(***************************************************************************)
\* The call pred(x) of a predicate function handed over by name.
Test(pred, x) ==
    CASE pred = "_isnot_start_pattern_match" -> isnot_start_pattern_match(x)
      [] pred = "_is_date_pattern_match" -> is_date_pattern_match(x)

\* itertools.dropwhile
DropWhile(pred, s) ==
    IF \E i \in 1..Len(s) : ~Test(pred, s[i])
    THEN LET first == CHOOSE i \in 1..Len(s) :
                          ~Test(pred, s[i]) /\ \A j \in 1..(i - 1) : Test(pred, s[j])
         IN  SubSeq(s, first, Len(s))
    ELSE <<>>

\* itertools.takewhile
TakeWhile(pred, s) ==
    IF \E i \in 1..Len(s) : ~Test(pred, s[i])
    THEN LET first == CHOOSE i \in 1..Len(s) :
                          ~Test(pred, s[i]) /\ \A j \in 1..(i - 1) : Test(pred, s[j])
         IN  SubSeq(s, 1, first - 1)
    ELSE s

\* itertools.islice(s, 1, None)
ISliceFrom1(s) == SubSeq(s, 2, Len(s))

droptake(drop_pred, take_pred, iterable) ==
    LET dropped      == DropWhile(drop_pred, iterable)
        drop_skipped == ISliceFrom1(dropped)
    IN  TakeWhile(take_pred, drop_skipped)

\* str.strip('\n'): newline characters are removed from both ends.
strip_trailing_newline(string) ==
    IF \A i \in 1..Len(string) : string[i] = "\n"
    THEN <<>>
    ELSE LET lo == CHOOSE i \in 1..Len(string) :
                       string[i] # "\n" /\ \A j \in 1..(i - 1) : string[j] = "\n"
             hi == CHOOSE i \in 1..Len(string) :
                       string[i] # "\n" /\ \A j \in (i + 1)..Len(string) : string[j] = "\n"
         IN  SubSeq(string, lo, hi)

\* find_dateblock with filter in the place of takewhile: every date entry
\* after the marker is collected.
find_dateblock_resync(stream_in) ==
    LET after     == ISliceFrom1(DropWhile("_isnot_start_pattern_match", stream_in))
        dateblock_ == SelectSeq(after, is_date_pattern_match)
    IN  IF Len(dateblock_) = 0
        THEN Raises(DateblockNotFound)
        ELSE Returns([i \in 1..Len(dateblock_) |-> strip_trailing_newline(dateblock_[i])])

\* find_dateblock without its check for an empty dateblock.
find_dateblock_unchecked(stream_in) ==
    LET dateblock_ == droptake("_isnot_start_pattern_match", "_is_date_pattern_match", stream_in)
    IN  Returns([i \in 1..Len(dateblock_) |-> strip_trailing_newline(dateblock_[i])])

find_dateblock(stream_in) ==
    LET dateblock_ == droptake("_isnot_start_pattern_match", "_is_date_pattern_match", stream_in)
    IN  IF Len(dateblock_) = 0
        THEN Raises(DateblockNotFound)
        ELSE Returns([i \in 1..Len(dateblock_) |-> strip_trailing_newline(dateblock_[i])])

(***************************************************************************)
(* Date records.                                                           *)
(***************************************************************************)
DueDate(date, completed) == [date |-> date, completed |-> completed]

\* datetime.date.fromisoformat on a token dddd-dd-dd
fromisoformat(tok) ==
    IF IsCalendarDate(IsoFields(tok)) THEN Returns(IsoFields(tok)) ELSE Raises(ValueError)

from_datestr(datestr) ==
    LET m == DATE_PATTERN_match(datestr)
    IN  IF ~m.matched
        THEN Raises(AttributeError)
        ELSE LET completed == m.completed # <<>>
             IN  IF m.date # <<>>
                 THEN LET parsed == fromisoformat(m.date)
                      IN  IF parsed.raised
                          THEN parsed
                          ELSE Returns(DueDate(parsed.value, completed))
                 ELSE Raises(StringParsingError(m.text))

duedateblock_from_strdateblock(dateblock_) ==
    LET parsed == [i \in 1..Len(dateblock_) |-> from_datestr(dateblock_[i])]
    IN  IF \E i \in 1..Len(dateblock_) : parsed[i].raised
        THEN parsed[CHOOSE i \in 1..Len(dateblock_) :
                        parsed[i].raised /\ \A j \in 1..(i - 1) : ~parsed[j].raised]
        ELSE Returns([i \in 1..Len(dateblock_) |-> parsed[i].value])

(***************************************************************************)
(* Due-date selection.                                                     *)
(***************************************************************************)
DateRange(earliest, latest) == [earliest |-> earliest, latest |-> latest]

\* __contains__ with the latest day left out.
DateRange_contains_open(range, date) == DateLE(range.earliest, date) /\ DateLT(date, range.latest)

\* DateRange.__contains__
DateRange_contains(range, date) == DateLE(range.earliest, date) /\ DateLE(date, range.latest)

\* _make_date_range with the two deltas exchanged.
make_date_range_swapped(ref, overdue_, advance_) ==
    DateRange(DatePlusDays(ref, 0 - advance_), DatePlusDays(ref, overdue_))

make_date_range(ref, overdue_, advance_) ==
    DateRange(DatePlusDays(ref, 0 - overdue_), DatePlusDays(ref, advance_))

\* DueDate.__lt__ of dataclass(order=True): only the date field compares.
DueDate_lt(a, b) == DateLT(a.date, b.date)

\* sorted(): a stable sort; an entry's place is the number of entries that
\* go before it.
Sorted(s) ==
    LET before(i, j) == DueDate_lt(s[i], s[j]) \/ (~DueDate_lt(s[j], s[i]) /\ i < j)
        place(i) == 1 + Cardinality({j \in 1..Len(s) : before(j, i)})
    IN  [k \in 1..Len(s) |-> s[CHOOSE i \in 1..Len(s) : place(i) = k]]

\* The loop of get_due_date: skip completed entries, return the first date
\* in the range; 0 when the loop runs to its end.
FirstDue(dates_, daterange_) ==
    LET hit(i) == dates_[i].completed # TRUE /\ DateRange_contains(daterange_, dates_[i].date)
    IN  IF \E i \in 1..Len(dates_) : hit(i)
        THEN CHOOSE i \in 1..Len(dates_) : hit(i) /\ \A j \in 1..(i - 1) : ~hit(j)
        ELSE 0

\* get_due_date from the sort on: the scan of the sorted entries.
select_due(dateblock_, daterange_) ==
    LET dates_ == Sorted(dateblock_)
        found_  == FirstDue(dates_, daterange_)
    IN  IF found_ # 0
        THEN Returns(dates_[found_].date)
        ELSE Raises(NoDueDateFound(<<daterange_.earliest, daterange_.latest>>, dateblock_))

get_due_date(dateblock_, reference_, overdue_, advance_) ==
    select_due(dateblock_, make_date_range(reference_, overdue_, advance_))

(***************************************************************************)
(* Presentation and the per-file pipeline.                                 *)
(***************************************************************************)
\* _excise_filestem that cuts at the first '/'.
excise_filestem_first(filename_) ==
    IF \E i \in 1..Len(filename_) : filename_[i] = "/"
    THEN LET first == CHOOSE i \in 1..Len(filename_) :
                          filename_[i] = "/" /\ \A j \in 1..(i - 1) : filename_[j] # "/"
         IN  SubSeq(filename_, first + 1, Len(filename_))
    ELSE filename_

excise_filestem(filename_) ==
    IF \E i \in 1..Len(filename_) : filename_[i] = "/"
    THEN LET last == CHOOSE i \in 1..Len(filename_) :
                         filename_[i] = "/" /\ \A j \in (i + 1)..Len(filename_) : filename_[j] # "/"
         IN  SubSeq(filename_, last + 1, Len(filename_))
    ELSE filename_

get_due_str(due_date, filename_) ==
    <<"D", "U", "E", " ", ":", " ">> \o IsoFormat(due_date) \o <<" ", ":", " ">>
        \o excise_filestem(filename_)

\* itertools.repeat(True, limit)
Repeat(n) == [i \in 1..n |-> TRUE]

\* itertools.compress: the data whose selector is true, up to the end of the
\* shorter of the two.
Compress(data, selectors) ==
    LET n == IF Len(data) < Len(selectors) THEN Len(data) ELSE Len(selectors)
    IN  SubSeq(data, 1, n)

\* _limit_stream that lets one line more through.
limit_stream_plus_one(stream_in, limit_) ==
    IF limit_ <= 0 THEN stream_in ELSE Compress(stream_in, Repeat(limit_ + 1))

limit_stream(stream_in, limit_) ==
    IF limit_ <= 0 THEN stream_in ELSE Compress(stream_in, Repeat(limit_))

\* MaybeResult._new
MaybeResult(value, success) == [value |-> value, success |-> success]

\* What bind hands back: ret is the returned MaybeResult, or the exception
\* that leaves bind when escaped is true; called tells whether func was
\* invoked.
\* bind on a failed result, with the failure built anew from the class of its
\* exception.
bind_failed_rebuilt(self) ==
    [ret |-> MaybeResult([type |-> self.value.type], FALSE),
     called |-> FALSE, escaped |-> FALSE]

\* MaybeResult.bind when self.success is False: self is returned.
bind_failed(self) == [ret |-> self, called |-> FALSE, escaped |-> FALSE]

\* MaybeResult.bind after the call of func: its value is wrapped as a
\* success, an RsfException it raised as a failure; any other exception
\* is not caught.
bind_called(new_value) ==
    IF ~new_value.raised
    THEN [ret |-> MaybeResult(new_value.value, TRUE), called |-> TRUE, escaped |-> FALSE]
    ELSE IF IsRsfException(new_value.value)
         THEN [ret |-> MaybeResult(new_value.value, FALSE), called |-> TRUE, escaped |-> FALSE]
         ELSE [ret |-> new_value.value, called |-> TRUE, escaped |-> TRUE]

\* The stages that get_duestr_from_file chains, by name.
Stages == <<"find_dateblock", "_duedateblock_from_strdateblock", "get_due_date", "get_due_str">>

\* The call func(value) of a stage handed to bind by name; get_due_date and
\* get_due_str are the partial applications that get_duestr_from_file makes.
Call(func, value) ==
    CASE func = "find_dateblock" -> find_dateblock(value)
      [] func = "_duedateblock_from_strdateblock" -> duedateblock_from_strdateblock(value)
      [] func = "get_due_date" -> get_due_date(value, reference, overdue, advance)
      [] func = "get_due_str" -> Returns(get_due_str(value, filename))

\* MaybeResult.bind
bind(self, func) ==
    IF self.success = FALSE THEN bind_failed(self) ELSE bind_called(Call(func, self.value))

\* type(e).__name__ as text
TypeName(e) ==
    CASE e.type = "DateblockNotFound" ->
            <<"D", "a", "t", "e", "b", "l", "o", "c", "k", "N", "o", "t", "F", "o", "u", "n", "d">>
      [] e.type = "NoDueDateFound" ->
            <<"N", "o", "D", "u", "e", "D", "a", "t", "e", "F", "o", "u", "n", "d">>
      [] e.type = "StringParsingError" ->
            <<"S", "t", "r", "i", "n", "g", "P", "a", "r", "s", "i", "n", "g", "E", "r", "r", "o", "r">>
      [] OTHER -> <<"R", "s", "f", "E", "x", "c", "e", "p", "t", "i", "o", "n">>

\* The end of get_duestr_from_file: the string it returns for a result.
duestr_of_result(result_, filename_, return_nodues_) ==
    IF result_.success = TRUE
    THEN result_.value
    ELSE IF return_nodues_ = TRUE
         THEN TypeName(result_.value) \o <<" ", ":", " ">> \o excise_filestem(filename_)
         ELSE <<>>

matchVars  == <<line, notstart, isdate>>
findVars   == <<found>>
selectVars == <<dateblock, daterange, due>>
windowVars == <<reference, overdue, advance>>
fileVars   == <<filename, return_nodues, limit, stream_, result, invoked, escaped, output>>
vars == <<pc, matchVars, stream, findVars, selectVars, windowVars, fileVars>>

None == <<>>

NoException == [type |-> "none"]

\* Values of the variables that a specification does not use.
IdleMatch  == line = None /\ notstart = FALSE /\ isdate = FALSE
IdleFind   == found = Returns(None)
IdleSelect == dateblock = None /\ daterange = None /\ due = Returns(None)
IdleWindow == reference = Date(1, 1, 1) /\ overdue = 0 /\ advance = 0
IdleFile   ==
    /\ filename = None /\ return_nodues = FALSE /\ limit = 0 /\ stream_ = None
    /\ result = MaybeResult(None, TRUE) /\ invoked = None
    /\ escaped = NoException /\ output = None

\* Text literals.
Rsf == <<"r", "s", "f", ":">>
NL == <<"\n">>

\* Sequences over S of length at most n.
SeqsUpTo(S, n) == UNION {[1..k -> S] : k \in 0..n}

(***************************************************************************)
(* SpecMatch: the two pattern matchers applied to one line.                *)
(***************************************************************************)
Pad(n) == [i \in 1..n |-> " "]

Pads == {Pad(n) : n \in 0..MaxPad} \cup {<<"\t">>}

Leads == {<<>>, <<" ">>}

Bullets == {<<"-">>, <<"*">>, <<"+">>, <<>>}

Flags == {<<>>, <<"x">>, <<"X">>, <<"x", "x">>}

Tokens ==
    { IsoFormat(Date(2022, 3, 10)),
      Fmt4(2022) \o <<"-">> \o Fmt2(13) \o <<"-">> \o Fmt2(1),
      Fmt4(2022) \o <<"-", "3", "-">> \o Fmt2(10) }

Trails == {<<>>, <<" ">>, NL, <<" ", "a">>, <<"0">>}

DateLines ==
    { l \o b \o p1 \o f \o p2 \o t \o e :
        l \in Leads, b \in Bullets, p1 \in Pads, f \in Flags, p2 \in Pads,
        t \in Tokens, e \in Trails }

Markers ==
    { Rsf, <<"R", "S", "F", ":">>, <<"r", "S", "f", ":">>, <<"r", "s", "f">>,
      <<"r", "s", ":", "f">>, <<"r", "s", "f", ";">> }

StartLines ==
    { l \o m \o p \o e :
        l \in Leads, m \in Markers, p \in Pads,
        e \in {<<>>, NL, <<"a", "\n">>, <<"-", " ">> \o IsoFormat(Date(2022, 3, 10))} }

MatchLines == DateLines \cup StartLines

InitMatch ==
    /\ pc = "line"
    /\ line \in MatchLines
    /\ notstart = FALSE /\ isdate = FALSE
    /\ stream = None
    /\ IdleFind /\ IdleSelect /\ IdleWindow /\ IdleFile

MatchStart ==
    /\ pc = "line"
    /\ notstart' = isnot_start_pattern_match(line)
    /\ pc' = "start_matched"
    /\ UNCHANGED <<line, isdate, stream, findVars, selectVars, windowVars, fileVars>>

MatchDate ==
    /\ pc = "start_matched"
    /\ isdate' = is_date_pattern_match(line)
    /\ pc' = "matched"
    /\ UNCHANGED <<line, notstart, stream, findVars, selectVars, windowVars, fileVars>>

NextMatch == MatchStart \/ MatchDate

SpecMatch == InitMatch /\ [][NextMatch]_vars

\* All of positions lo..hi of s are whitespace.
AllSpace(s, lo, hi) == \A i \in lo..hi : i <= Len(s) /\ IsSpace(s[i])

\* s, from position p on, is: whitespace, at most one flag, whitespace and a
\* date token; the value is the set of positions that follow such a token.
EntryTails(s, p) ==
    { q \in 1..(Len(s) + 1) :
        \E a \in 0..Len(s) : \E f \in {0, 1} : \E b \in 0..Len(s) :
            /\ q = p + a + f + b + 10
            /\ AllSpace(s, p, p + a - 1)
            /\ (f = 1 => (p + a <= Len(s) /\ s[p + a] \in {"x", "X"}))
            /\ AllSpace(s, p + a + f, p + a + f + b - 1)
            /\ IsDateToken(s, p + a + f + b) }

\* The shape of a date entry as the code has it: the bullet is the first
\* character of the line and anything may follow the date token.
DateEntryShape(s) ==
    /\ Len(s) >= 1
    /\ s[1] \in {"-", "*"}
    /\ EntryTails(s, 2) # {}

\* The shape of a date entry as claimed: whitespace may go before the bullet
\* and only whitespace may follow the date token.
DateEntryShapeClaimed(s) ==
    \E l \in 0..Len(s) :
        /\ AllSpace(s, 1, l)
        /\ l + 1 <= Len(s)
        /\ s[l + 1] \in {"-", "*"}
        /\ \E q \in EntryTails(s, l + 2) : AllSpace(s, q, Len(s))

LowerCase(c) ==
    CASE c = "R" -> "r" [] c = "S" -> "s" [] c = "F" -> "f" [] OTHER -> c

\* The line begins with 'rsf:' in any letter case.
BeginsWithRsf(s) ==
    /\ Len(s) >= 4
    /\ [i \in 1..4 |-> LowerCase(s[i])] = Rsf

\* C9 (amended): the date-entry matcher accepts a line iff the line begins
\* with one bullet ('-' or '*') as its first character, followed by optional
\* whitespace, at most one completion flag, optional whitespace and a date
\* token dddd-dd-dd; whatever follows the date token is not looked at.
C9_DateMatcherShape == pc = "matched" => (isdate <=> DateEntryShape(line))

\* C9 as claimed: the matcher accepts a line iff it has the shape with
\* optional leading whitespace and nothing but whitespace after the token.
C9_AsClaimed == pc = "matched" => (isdate <=> DateEntryShapeClaimed(line))

\* An accepted entry that carries a flag, padding and text after the token.
C9_Witness ==
    /\ pc = "matched"
    /\ isdate
    /\ line = <<"*", " ", "X", " ">> \o IsoFormat(Date(2022, 3, 10)) \o <<" ", "a">>

\* C10 (amended): the start-marker matcher accepts a line iff the line begins
\* with 'rsf:' in any letter case at its first character; what follows the
\* colon is not looked at, so 'rsf:' followed by other text is a marker too.
C10_StartMatcherPrefix ==
    pc \in {"start_matched", "matched"} => (notstart <=> ~BeginsWithRsf(line))

\* C10 as claimed: the matcher accepts a line iff the whole line is 'rsf:'
\* in any letter case followed only by whitespace.
C10_AsClaimed ==
    pc \in {"start_matched", "matched"} =>
        (notstart <=> ~(BeginsWithRsf(line) /\ AllSpace(line, 5, Len(line))))

\* An accepted marker in mixed case with text after it.
C10_Witness ==
    /\ pc = "start_matched"
    /\ ~notstart
    /\ line = <<"r", "S", "f", ":", "a", "\n">>

(***************************************************************************)
(* SpecFind: find_dateblock applied to a stream of lines.                  *)
(***************************************************************************)
MarkerLine == Rsf \o NL
MarkerTextLine == <<"R", "S", "F", ":", " ", "a", "\n">>
EntryLine == <<"-", " ">> \o IsoFormat(Date(2022, 3, 10)) \o NL
DoneEntryLine == <<"*", " ", "x", " ">> \o IsoFormat(Date(2022, 3, 15))
BlankLine == NL

FindLines == {MarkerLine, MarkerTextLine, EntryLine, DoneEntryLine, BlankLine}

InitFind ==
    /\ pc = "stream"
    /\ stream \in SeqsUpTo(FindLines, MaxStream)
    /\ found = Returns(None)
    /\ IdleMatch /\ IdleSelect /\ IdleWindow /\ IdleFile

FindDateblock ==
    /\ pc = "stream"
    /\ found' = find_dateblock(stream)
    /\ pc' = "found"
    /\ UNCHANGED <<matchVars, stream, selectVars, windowVars, fileVars>>

NextFind == FindDateblock

SpecFind == InitFind /\ [][NextFind]_vars

HasMarker(s) == \E k \in 1..Len(s) : START_PATTERN_match(s[k])

\* The index of the first start-marker line of s.
FirstMarker(s) ==
    CHOOSE k \in 1..Len(s) :
        START_PATTERN_match(s[k]) /\ \A j \in 1..(k - 1) : ~START_PATTERN_match(s[j])

\* The length of the maximal run of date-entry lines that follows line k.
RunLength(s, k) ==
    CHOOSE n \in 0..(Len(s) - k) :
        /\ \A i \in 1..n : is_date_pattern_match(s[k + i])
        /\ (k + n = Len(s) \/ ~is_date_pattern_match(s[k + n + 1]))

\* A line of a file without its newline characters.
WithoutNewline(l) == SelectSeq(l, LAMBDA c : c # "\n")

\* C2: when the stream has a start-marker line, find_dateblock returns
\* exactly the maximal run of date-entry lines that begins right after the
\* first marker line, in order and each without its newline; nothing before
\* the marker, the marker itself or anything after the first non-matching
\* line is in the result (an empty run is reported by raising).
C2_MaximalRunAfterFirstMarker ==
    (pc = "found" /\ HasMarker(stream)) =>
        LET k == FirstMarker(stream)
            n == RunLength(stream, k)
        IN  IF n = 0
            THEN found.raised
            ELSE /\ ~found.raised
                 /\ Len(found.value) = n
                 /\ \A i \in 1..n : found.value[i] = WithoutNewline(stream[k + i])

\* Text before the marker, a second marker and a later entry are left out.
C2_Witness ==
    /\ pc = "found"
    /\ stream = <<BlankLine, MarkerLine, EntryLine, MarkerLine, DoneEntryLine>>
    /\ ~found.raised
    /\ found.value = <<WithoutNewline(EntryLine)>>

\* C3: find_dateblock raises DateblockNotFound exactly when the stream has no
\* start-marker line or the line right after the first marker line is not a
\* date entry (the marker may be the last line); otherwise it returns a
\* non-empty list.
C3_NotFoundExactly ==
    pc = "found" =>
        /\ found.raised <=>
              \/ ~HasMarker(stream)
              \/ FirstMarker(stream) = Len(stream)
              \/ ~is_date_pattern_match(stream[FirstMarker(stream) + 1])
        /\ found.raised => found.value.type = "DateblockNotFound"
        /\ ~found.raised => Len(found.value) > 0

\* Entries, but the only marker is the last line.
C3_Witness ==
    /\ pc = "found"
    /\ stream = <<EntryLine, DoneEntryLine, MarkerLine>>
    /\ found.raised
    /\ found.value.type = "DateblockNotFound"

(***************************************************************************)
(* SpecSelect: get_due_date applied to a list of entries.                  *)
(***************************************************************************)
RefDates == {Date(2022, 3, 12), Date(2024, 3, 1)}

EntriesAround(ref) ==
    { DueDate(DatePlusDays(ref, k), c) : k \in (0 - DateSpread)..DateSpread, c \in BOOLEAN }

\* The entries of the example of the specification and of its tests.
ExampleBlock == <<DueDate(Date(2022, 3, 10), FALSE), DueDate(Date(2022, 3, 20), FALSE)>>

InitSelect ==
    /\ pc = "call"
    /\ \/ /\ reference \in RefDates
          /\ overdue \in (0 - 1)..MaxWindow
          /\ advance \in (0 - 1)..MaxWindow
          /\ dateblock \in SeqsUpTo(EntriesAround(reference), MaxEntries)
       \/ /\ reference = Date(2022, 3, 12)
          /\ overdue = 3
          /\ advance \in {0, 9}
          /\ dateblock = ExampleBlock
    /\ daterange = None
    /\ due = Returns(None)
    /\ stream = None
    /\ IdleMatch /\ IdleFind /\ IdleFile

MakeDateRange ==
    /\ pc = "call"
    /\ daterange' = make_date_range(reference, overdue, advance)
    /\ pc' = "ranged"
    /\ UNCHANGED <<matchVars, stream, findVars, dateblock, due, windowVars, fileVars>>

SelectDue ==
    /\ pc = "ranged"
    /\ due' = select_due(dateblock, daterange)
    /\ pc' = "selected"
    /\ UNCHANGED <<matchVars, stream, findVars, dateblock, daterange, windowVars, fileVars>>

NextSelect == MakeDateRange \/ SelectDue

SpecSelect == InitSelect /\ [][NextSelect]_vars

\* The entries that are due: not completed, and between reference - overdue
\* and reference + advance in days, both ends included.
DueEntries ==
    { i \in 1..Len(dateblock) :
        /\ dateblock[i].completed = FALSE
        /\ ToOrdinal(reference) - overdue <= ToOrdinal(dateblock[i].date)
        /\ ToOrdinal(dateblock[i].date) <= ToOrdinal(reference) + advance }

\* C1: get_due_date returns the minimum date among the entries that are not
\* completed and lie in [reference - overdue, reference + advance]; it
\* raises NoDueDateFound exactly when there is no such entry.
C1_EarliestDueDate ==
    pc = "selected" =>
        IF DueEntries = {}
        THEN due.raised /\ due.value.type = "NoDueDateFound"
        ELSE /\ ~due.raised
             /\ \E i \in DueEntries : dateblock[i].date = due.value
             /\ \A i \in DueEntries : ToOrdinal(due.value) <= ToOrdinal(dateblock[i].date)

\* An earlier completed entry in range is passed over, and of two due
\* entries the earlier one is returned.
C1_Witness ==
    /\ pc = "selected"
    /\ ~due.raised
    /\ \E i \in 1..Len(dateblock) :
          /\ dateblock[i].completed
          /\ DateRange_contains(daterange, dateblock[i].date)
          /\ DateLT(dateblock[i].date, due.value)
    /\ \E i \in DueEntries : DateLT(due.value, dateblock[i].date)

IsExample ==
    /\ dateblock = ExampleBlock
    /\ reference = Date(2022, 3, 12)
    /\ overdue = 3
    /\ advance = 0

\* C8 (amended): for the non-completed entries 2022-03-10 and 2022-03-20
\* with reference 2022-03-12, overdue = 3 and advance = 0, the range is
\* [2022-03-09, 2022-03-12]; 2022-03-10 is in that range, 2022-03-20 is not,
\* and get_due_date returns 2022-03-10.
C8_ExampleReturnsMarch10 ==
    (pc = "selected" /\ IsExample) =>
        /\ daterange = DateRange(Date(2022, 3, 9), Date(2022, 3, 12))
        /\ DateRange_contains(daterange, Date(2022, 3, 10))
        /\ ~DateRange_contains(daterange, Date(2022, 3, 20))
        /\ ~due.raised
        /\ due.value = Date(2022, 3, 10)

\* C8 as claimed: neither entry is in the range and get_due_date fails with
\* NoDueDateFound.
C8_AsClaimed ==
    (pc = "selected" /\ IsExample) =>
        /\ daterange = DateRange(Date(2022, 3, 9), Date(2022, 3, 12))
        /\ ~DateRange_contains(daterange, Date(2022, 3, 10))
        /\ ~DateRange_contains(daterange, Date(2022, 3, 20))
        /\ due.raised
        /\ due.value.type = "NoDueDateFound"

C8_Witness == pc = "selected" /\ IsExample /\ due = Returns(Date(2022, 3, 10))

(***************************************************************************)
(* Spec: get_duestr_from_file on one file, one bind of the chain at a time.*)
(***************************************************************************)
Today == Date(2022, 3, 12)

EarlyLine == <<"-", " ">> \o IsoFormat(DatePlusDays(Today, 0 - MaxWindow)) \o NL
DoneLine == <<"-", " ", "x", " ">> \o IsoFormat(Today) \o NL
LaterLine == <<"*", " ">> \o IsoFormat(DatePlusDays(Today, MaxWindow))
BadDateLine == <<"-", " ">> \o Fmt4(2022) \o <<"-">> \o Fmt2(2) \o <<"-">> \o Fmt2(30) \o NL

FileLines == {MarkerLine, EarlyLine, DoneLine, LaterLine, BadDateLine, BlankLine}

Filenames == { <<"n", ".", "m", "d">>, <<"a", "/", "b", "/", "n", ".", "m", "d">> }

Init ==
    /\ pc = "start"
    /\ stream \in SeqsUpTo(FileLines, MaxLines)
    /\ filename \in Filenames
    /\ reference = Today
    /\ overdue \in {0, MaxWindow}
    /\ advance \in {0, MaxWindow}
    /\ return_nodues \in BOOLEAN
    /\ limit \in 0..MaxLimit
    /\ stream_ = None
    /\ result = MaybeResult(None, TRUE)
    /\ invoked = None
    /\ escaped = NoException
    /\ output = None
    /\ IdleMatch /\ IdleFind /\ IdleSelect

\* One bind of the chain: the MaybeResult it returns becomes the result, or
\* the exception it lets through leaves get_duestr_from_file.
BindStep(bound, stage, next) ==
    /\ invoked' = IF bound.called THEN Append(invoked, stage) ELSE invoked
    /\ IF bound.escaped
       THEN /\ escaped' = bound.ret
            /\ pc' = "crashed"
            /\ UNCHANGED result
       ELSE /\ result' = bound.ret
            /\ pc' = next
            /\ UNCHANGED escaped
    /\ UNCHANGED <<matchVars, stream, findVars, selectVars, windowVars,
                   filename, return_nodues, limit, stream_, output>>

LimitStream ==
    /\ pc = "start"
    /\ stream_' = limit_stream(stream, limit)
    /\ result' = MaybeResult(stream_', TRUE)
    /\ pc' = "find"
    /\ UNCHANGED <<matchVars, stream, findVars, selectVars, windowVars,
                   filename, return_nodues, limit, invoked, escaped, output>>

BindFindDateblock ==
    /\ pc = "find"
    /\ BindStep(bind(result, Stages[1]), Stages[1], "parse")

BindDueDateBlock ==
    /\ pc = "parse"
    /\ BindStep(bind(result, Stages[2]), Stages[2], "select")

BindGetDueDate ==
    /\ pc = "select"
    /\ BindStep(bind(result, Stages[3]), Stages[3], "format")

BindGetDueStr ==
    /\ pc = "format"
    /\ BindStep(bind(result, Stages[4]), Stages[4], "chained")

ReturnDueStr ==
    /\ pc = "chained"
    /\ output' = duestr_of_result(result, filename, return_nodues)
    /\ pc' = "returned"
    /\ UNCHANGED <<matchVars, stream, findVars, selectVars, windowVars,
                   filename, return_nodues, limit, stream_, result, invoked, escaped>>

Next ==
    \/ LimitStream
    \/ BindFindDateblock
    \/ BindDueDateBlock
    \/ BindGetDueDate
    \/ BindGetDueStr
    \/ ReturnDueStr

Spec == Init /\ [][Next]_vars

\* The dateblock of the limited stream has an entry whose date token is not
\* a calendar date.
HasBadDate ==
    LET block == find_dateblock(stream_)
    IN  /\ ~block.raised
        /\ \E i \in 1..Len(block.value) :
              ~IsCalendarDate(IsoFields(DATE_PATTERN_match(block.value[i]).date))

\* C4: when a line of the dateblock matches the date-entry pattern but its
\* date token is not a calendar date, parsing fails with StringParsingError
\* and the chain holds a tagged failure (success = false, value = the
\* StringParsingError); no exception leaves get_duestr_from_file.
C4_BadDateIsTaggedFailure ==
    (pc \notin {"start", "find", "parse"} /\ HasBadDate) =>
        /\ pc # "crashed"
        /\ result.success = FALSE
        /\ result.value.type = "StringParsingError"

IsPrefix(s, t) == Len(s) <= Len(t) /\ \A i \in 1..Len(s) : s[i] = t[i]

\* C5: once a stage of the chain has produced a failure, no later stage is
\* invoked and the result stays that same failure through the later binds;
\* a stage is invoked only when every earlier stage succeeded.
C5_ShortCircuit ==
    [][ /\ result.success = FALSE => (result' = result /\ invoked' = invoked)
        /\ invoked' # invoked =>
              /\ result.success = TRUE
              /\ invoked' = SubSeq(Stages, 1, Len(invoked) + 1)
              /\ IsPrefix(invoked, Stages) ]_vars

\* get_due_date failed, get_due_str was never invoked, and the failure is
\* the final result.
C5_Witness ==
    /\ pc = "returned"
    /\ result.success = FALSE
    /\ result.value.type = "NoDueDateFound"
    /\ invoked = SubSeq(Stages, 1, 3)

\* The part of a file name after its last '/'.
Basename(name) ==
    CHOOSE b \in {SubSeq(name, k, Len(name)) : k \in 1..(Len(name) + 1)} :
        /\ \A i \in 1..Len(b) : b[i] # "/"
        /\ (Len(b) = Len(name) \/ name[Len(name) - Len(b)] = "/")

\* A line that is a non-completed entry whose date lies in the date range.
IsDueLine(l) ==
    LET m == DATE_PATTERN_match(l)
    IN  /\ m.matched
        /\ m.completed = <<>>
        /\ IsCalendarDate(IsoFields(m.date))
        /\ ToOrdinal(reference) - overdue <= ToOrdinal(IsoFields(m.date))
        /\ ToOrdinal(IsoFields(m.date)) <= ToOrdinal(reference) + advance

DuePrefix == <<"D", "U", "E", " ", ":", " ">>

Colon == <<" ", ":", " ">>

\* C6: get_duestr_from_file returns "DUE : <ISO date> : <basename>" iff the
\* chain succeeded; when it failed it returns "<ErrorKindName> : <basename>"
\* if return_nodues is true and the empty string otherwise.  So with
\* return_nodues false a non-empty string is returned only for a file that
\* holds a non-completed entry whose date lies in the range.
C6_ReturnedString ==
    pc = "returned" =>
        /\ result.success = TRUE =>
              \E i \in 1..Len(stream) :
                  /\ IsDueLine(stream[i])
                  /\ output = DuePrefix \o DATE_PATTERN_match(stream[i]).date
                                 \o Colon \o Basename(filename)
        /\ result.success = FALSE =>
              output = IF return_nodues
                       THEN TypeName(result.value) \o Colon \o Basename(filename)
                       ELSE <<>>
        /\ result.success = TRUE <=> IsPrefix(DuePrefix, output)
        /\ (return_nodues = FALSE /\ output # <<>>) =>
              \E i \in 1..Len(stream) : IsDueLine(stream[i])

\* A due file in a directory, reported by its basename when failures are
\* not reported.
C6_Witness ==
    /\ pc = "returned"
    /\ return_nodues = FALSE
    /\ filename = <<"a", "/", "b", "/", "n", ".", "m", "d">>
    /\ stream = <<MarkerLine, DoneLine, EarlyLine>>
    /\ output = DuePrefix \o SubSeq(EarlyLine, 3, 12) \o Colon \o <<"n", ".", "m", "d">>

Min(a, b) == IF a < b THEN a ELSE b

\* C7: with a positive limit N the chain sees exactly the first N lines of
\* the stream: a start marker after line N is never found
\* (DateblockNotFound) and entries after line N are not in the dateblock
\* even when the marker is within the first N lines.  With limit 0 the
\* chain sees the whole stream.
C7_LineLimit ==
    /\ pc # "start" =>
          /\ Len(stream_) = (IF limit > 0 THEN Min(limit, Len(stream)) ELSE Len(stream))
          /\ \A i \in 1..Len(stream_) : stream_[i] = stream[i]
    /\ ( /\ pc \notin {"start", "find"}
         /\ limit > 0
         /\ ~HasMarker(SubSeq(stream, 1, Min(limit, Len(stream)))) ) =>
          /\ result.success = FALSE
          /\ result.value.type = "DateblockNotFound"
    /\ (pc = "parse" /\ result.success = TRUE /\ limit > 0) =>
          LET k == FirstMarker(stream)
          IN  /\ k + Len(result.value) <= limit
              /\ \A i \in 1..Len(result.value) :
                     result.value[i] = WithoutNewline(stream[k + i])

\* The marker and its due entry lie after the first line, the limit is 1.
C7_Witness ==
    /\ pc = "returned"
    /\ limit = 1
    /\ stream = <<BlankLine, MarkerLine, EarlyLine>>
    /\ overdue = MaxWindow
    /\ result.success = FALSE
    /\ result.value.type = "DateblockNotFound"

=============================================================================
